---- MODULE Spec2Model ----
(***************************************************************************)
(* State-machine model of the Sudoku egui application (src/src/main.rs).   *)
(* One step of the model is one call of App::update (one frame), driven by *)
(* the input events egui reports for that frame, or the passing of time    *)
(* between two frames.                                                     *)
(***************************************************************************)
EXTENDS Integers, Sequences, FiniteSets, TLC

(* ---------------------------------------------------------------------- *)
(* Program constants                                                       *)
(* ---------------------------------------------------------------------- *)
\* side of the grids: [[char; 9]; 9]
N == 9

\* sentinel stored in both components of `selected` before any click
NoSel == 10

\* strikes >= 3 shows the game over screen
MaxStrikes == 3

\* strikes is a u8
U8 == 256

(* ---------------------------------------------------------------------- *)
(* Bounds of the model                                                     *)
(* ---------------------------------------------------------------------- *)
\* digit keys the player presses are Num1..Num<MaxKey>
MaxKey == 3

\* at most this many digit keys are reported as pressed in one frame
MaxKeysPerFrame == 2

\* the player clicks the cells with flat index 0..MaxClick-1
MaxClick == 2

\* the clock is observed up to this many seconds
MaxTime == 2

(* ---------------------------------------------------------------------- *)
(* Values                                                                  *)
(* ---------------------------------------------------------------------- *)
Idx == 0 .. (N - 1)

\* Option<T>
None == << >>
Some(x) == << x >>

\* egui Key::Num1 .. Key::Num9 are modelled by 1 .. 9; Key::name() gives the
\* one-character name of the key
KeyName(key) == << "1", "2", "3", "4", "5", "6", "7", "8", "9" >>[key]

valid_keys == << 1, 2, 3, 4, 5, 6, 7, 8, 9 >>

\* [[c; 9]; 9]
Fill(c) == [row \in Idx |-> [col \in Idx |-> c]]

(* ---------------------------------------------------------------------- *)
(* The puzzle files the application may find under ./puzzles               *)
(* ---------------------------------------------------------------------- *)
\* a solved board, row-major
SolvedDigit(row, col) == ((3 * (row % 3) + (row \div 3) + col) % 9) + 1

SolvedString == [i \in 1 .. (N * N) |-> KeyName(SolvedDigit((i - 1) \div N, (i - 1) % N))]

\* the solved board with the flat (0-based) positions in `blanks` emptied
Blanked(blanks) == [i \in 1 .. (N * N) |-> IF (i - 1) \in blanks THEN "." ELSE SolvedString[i]]

PuzzleA == [puzzle |-> Blanked({0, 1}), solution |-> SolvedString]
PuzzleB == [puzzle |-> Blanked({1}), solution |-> SolvedString]
\* puzzle string one character short
PuzzleShort == [puzzle |-> SubSeq(Blanked({1}), 1, N * N - 1), solution |-> SolvedString]
\* solution string one character short
SolutionShort == [puzzle |-> Blanked({0}), solution |-> SubSeq(SolvedString, 1, N * N - 1)]

\* what fs::read_to_string + serde_json::from_str can produce for a file
ReadError == [kind |-> "ReadError", puzzles |-> << >>]
ParseError == [kind |-> "ParseError", puzzles |-> << >>]
Parsed(ps) == [kind |-> "Parsed", puzzles |-> ps]

Files == { ReadError, ParseError, Parsed(<< >>), Parsed(<< PuzzleA, PuzzleB >>),
           Parsed(<< PuzzleShort, SolutionShort >>) }

(* ---------------------------------------------------------------------- *)
(* State                                                                   *)
(* ---------------------------------------------------------------------- *)
VARIABLES
    starting_grid,   \* Sudoku.starting_grid
    player_grid,     \* Sudoku.player_grid
    solution_grid,   \* Sudoku.solution_grid
    selected,        \* Sudoku.selected, << row, col >>
    difficulty,      \* Sudoku.difficulty
    strikes,         \* Sudoku.strikes
    time_elapsed,    \* Sudoku.time_elapsed, in seconds
    timer_start,     \* Sudoku.timer_start, Option<Instant>
    game_over,       \* Sudoku.game_over
    panicked,        \* the process has panicked (unwrap/expect/index out of bounds)
    now,             \* the monotonic clock read by Instant::now()
    screen,          \* what the last frame displayed
    puzzle,          \* history: the Puzzle returned by Puzzle::new in get_puzzle
    load_status,     \* history: outcome of the load attempt
    wrong_entries    \* history: digit key presses that disagreed with the solution

vars == << starting_grid, player_grid, solution_grid, selected, difficulty, strikes,
           time_elapsed, timer_start, game_over, panicked, now, screen, puzzle,
           load_status, wrong_entries >>

grids == << starting_grid, player_grid, solution_grid >>
clock == << time_elapsed, timer_start, game_over >>
history == << puzzle, load_status, wrong_entries >>

\* Sudoku::new
Init ==
    /\ starting_grid = Fill(".")
    /\ player_grid = Fill(".")
    /\ solution_grid = Fill(".")
    /\ selected = << NoSel, NoSel >>
    /\ difficulty = ""
    /\ strikes = 0
    /\ time_elapsed = 0
    /\ timer_start = None
    /\ game_over = FALSE
    /\ panicked = FALSE
    /\ now = 0
    /\ screen = [name |-> "none", text |-> 0]
    /\ puzzle = [puzzle |-> << >>, solution |-> << >>]
    /\ load_status = "NotAttempted"
    /\ wrong_entries = 0


(* ---------------------------------------------------------------------- *)
(* Phase: the branch App::update dispatches to                             *)
(* ---------------------------------------------------------------------- *)
\* dispatch that tests completeness before the strikes
PhaseWinFirst ==
    IF difficulty = "" THEN "ChoosingDifficulty"
    ELSE IF player_grid = solution_grid THEN "Won"
    ELSE IF strikes >= MaxStrikes THEN "Lost"
    ELSE "Playing"

\* dispatch without the strikes test
PhaseNoLost ==
    IF difficulty = "" THEN "ChoosingDifficulty"
    ELSE IF player_grid = solution_grid THEN "Won"
    ELSE "Playing"

Phase ==
    IF difficulty = "" THEN "ChoosingDifficulty"
    ELSE IF strikes >= MaxStrikes THEN "Lost"
    ELSE IF player_grid = solution_grid THEN "Won"
    ELSE "Playing"

(* ---------------------------------------------------------------------- *)
(* Puzzle::new and Sudoku::get_puzzle                                      *)
(* ---------------------------------------------------------------------- *)
\* Puzzle::new: unwrap()/expect() panic on an unreadable or unparsable file;
\* choose() on an empty collection leaves both strings empty; otherwise the
\* entry at position `pick` is cloned
PuzzleNew(file, pick) ==
    IF file.kind # "Parsed"
    THEN [panic |-> TRUE, puzzle |-> << >>, solution |-> << >>]
    ELSE IF Len(file.puzzles) = 0
    THEN [panic |-> FALSE, puzzle |-> << >>, solution |-> << >>]
    ELSE [panic |-> FALSE, puzzle |-> file.puzzles[pick].puzzle,
          solution |-> file.puzzles[pick].solution]

\* index computed column-major
FillFromTransposed(grid, chars) ==
    [row \in Idx |-> [col \in Idx |->
        LET index == col * 9 + row
        IN  IF index < Len(chars) THEN chars[index + 1] ELSE grid[row][col]]]

\* the double loop of get_puzzle for one grid: index = row * 9 + col, and the
\* cell is written only when chars.get(index) is Some
FillFrom(grid, chars) ==
    [row \in Idx |-> [col \in Idx |->
        LET index == row * 9 + col
        IN  IF index < Len(chars) THEN chars[index + 1] ELSE grid[row][col]]]

\* outcome of the load attempt, in the spec's vocabulary
LoadStatus(file) ==
    IF file.kind # "Parsed" THEN "SourceUnavailable"
    ELSE IF Len(file.puzzles) = 0 THEN "EmptyCollection"
    ELSE "Loaded"

\* Sudoku::get_puzzle
GetPuzzle(file, pick) ==
    LET p == PuzzleNew(file, pick)
    IN  /\ load_status' = LoadStatus(file)
        /\ IF p.panic
           THEN /\ panicked' = TRUE
                /\ UNCHANGED << grids, puzzle >>
           ELSE /\ panicked' = FALSE
                /\ puzzle' = [puzzle |-> p.puzzle, solution |-> p.solution]
                /\ starting_grid' = FillFrom(starting_grid, p.puzzle)
                /\ player_grid' = FillFrom(player_grid, p.puzzle)
                /\ solution_grid' = FillFrom(solution_grid, p.solution)

\* the four buttons of the difficulty screen; "" is a frame without a click
Buttons == { "Beginner", "Intermediate", "Advanced", "Test" }

\* the difficulty screen (and its load) also runs once a difficulty is set
DifficultyFrameAgain(button, file, pick) ==
    /\ ~panicked
    /\ difficulty' = IF button # "" THEN button ELSE difficulty
    /\ screen' = [name |-> "difficulty", text |-> 0]
    /\ IF difficulty' # ""
       THEN GetPuzzle(file, pick)
       ELSE UNCHANGED << grids, puzzle, load_status, panicked >>
    /\ UNCHANGED << selected, strikes, clock, now, wrong_entries >>

\* Sudoku::difficulty_screen, reached from update when difficulty is empty
DifficultyFrame(button, file, pick) ==
    /\ ~panicked
    /\ difficulty = ""
    /\ difficulty' = button
    /\ screen' = [name |-> "difficulty", text |-> 0]
    /\ IF button # ""
       THEN GetPuzzle(file, pick)
       ELSE UNCHANGED << grids, puzzle, load_status, panicked >>
    /\ UNCHANGED << selected, strikes, clock, now, wrong_entries >>

(* ---------------------------------------------------------------------- *)
(* Terminal screens                                                        *)
(* ---------------------------------------------------------------------- *)
\* number of cells where the player grid agrees with the solution grid
CorrectCells == Cardinality({ rc \in Idx \X Idx :
                                player_grid[rc[1]][rc[2]] = solution_grid[rc[1]][rc[2]] })

\* the percentage truncated instead of rounded
PercentageTruncated(count) == (100 * count) \div 81

\* ((count / 81.0) * 100.0).round() as i32
Percentage(count) == (200 * count + 81) \div 162

\* Sudoku::lose_screen (takes &self: nothing is written)
LoseFrame ==
    /\ ~panicked
    /\ Phase = "Lost"
    /\ screen' = [name |-> "lose", text |-> Percentage(CorrectCells)]
    /\ UNCHANGED << grids, selected, difficulty, strikes, clock, panicked, now, history >>

\* the elapsed time is recorded on every frame of the win screen
WinFrameNoGuard ==
    /\ ~panicked
    /\ Phase = "Won"
    /\ time_elapsed' = IF timer_start # None THEN now - timer_start[1] ELSE time_elapsed
    /\ game_over' = TRUE
    /\ screen' = [name |-> "win", text |-> time_elapsed']
    /\ UNCHANGED << grids, selected, difficulty, strikes, timer_start, panicked, now, history >>

\* Sudoku::win_screen
WinFrame ==
    /\ ~panicked
    /\ Phase = "Won"
    /\ IF ~game_over
       THEN /\ time_elapsed' = IF timer_start # None THEN now - timer_start[1]
                               ELSE time_elapsed
            /\ game_over' = TRUE
       ELSE UNCHANGED << time_elapsed, game_over >>
    /\ screen' = [name |-> "win", text |-> time_elapsed']
    /\ UNCHANGED << grids, selected, difficulty, strikes, timer_start, panicked, now, history >>


(* ---------------------------------------------------------------------- *)
(* The game frame                                                          *)
(* ---------------------------------------------------------------------- *)
\* Duration::checked_add; a Duration holds far more seconds than the clock
\* is observed for, so the sum is always representable
CheckedAdd(a, b) == Some(a + b)

\* `let elapsed = match self.timer_start { ... }`
Elapsed ==
    IF timer_start # None
    THEN LET time == CheckedAdd(time_elapsed, now - timer_start[1])
         IN  IF time # None THEN time[1] ELSE 0
    ELSE 0

\* one iteration of `for &key in &valid_keys`: acc is the player grid and the
\* strike counter so far, row/col the selection captured at the frame start
\* a strike only when the cell did not already show this wrong digit
KeyStepNoRepeat(key, keys, row, col, acc) ==
    IF /\ key \in keys
       /\ row # NoSel
       /\ col # NoSel
       /\ starting_grid[row][col] = "."
    THEN LET pg == [acc.player_grid EXCEPT ![row][col] = KeyName(key)]
         IN  [player_grid |-> pg,
              strikes |-> IF /\ solution_grid[row][col] # pg[row][col]
                             /\ acc.player_grid[row][col] # pg[row][col]
                          THEN (acc.strikes + 1) % U8
                          ELSE acc.strikes]
    ELSE acc

\* a wrong digit is counted but not written
KeyStepRejectWrong(key, keys, row, col, acc) ==
    IF /\ key \in keys
       /\ row # NoSel
       /\ col # NoSel
       /\ starting_grid[row][col] = "."
    THEN IF solution_grid[row][col] # KeyName(key)
         THEN [player_grid |-> acc.player_grid, strikes |-> (acc.strikes + 1) % U8]
         ELSE [player_grid |-> [acc.player_grid EXCEPT ![row][col] = KeyName(key)],
               strikes |-> acc.strikes]
    ELSE acc

\* the test of the starting grid is missing
KeyStepNoClueCheck(key, keys, row, col, acc) ==
    IF /\ key \in keys
       /\ row # NoSel
       /\ col # NoSel
    THEN LET pg == [acc.player_grid EXCEPT ![row][col] = KeyName(key)]
         IN  [player_grid |-> pg,
              strikes |-> IF solution_grid[row][col] # pg[row][col]
                          THEN (acc.strikes + 1) % U8
                          ELSE acc.strikes]
    ELSE acc

KeyStep(key, keys, row, col, acc) ==
    IF /\ key \in keys
       /\ row # NoSel
       /\ col # NoSel
       /\ starting_grid[row][col] = "."
    THEN LET pg == [acc.player_grid EXCEPT ![row][col] = KeyName(key)]
         IN  [player_grid |-> pg,
              strikes |-> IF solution_grid[row][col] # pg[row][col]
                          THEN (acc.strikes + 1) % U8
                          ELSE acc.strikes]
    ELSE acc

\* the keys visited from Num9 down to Num1
RECURSIVE KeyLoopDescending(_, _, _, _, _)
KeyLoopDescending(i, keys, row, col, acc) ==
    IF i > Len(valid_keys) THEN acc
    ELSE KeyLoopDescending(i + 1, keys, row, col,
                           KeyStep(valid_keys[Len(valid_keys) + 1 - i], keys, row, col, acc))

RECURSIVE KeyLoop(_, _, _, _, _)
KeyLoop(i, keys, row, col, acc) ==
    IF i > Len(valid_keys) THEN acc
    ELSE KeyLoop(i + 1, keys, row, col, KeyStep(valid_keys[i], keys, row, col, acc))

\* `self.player_grid[selected_row][selected_col] = '.'` when Backspace was
\* pressed: an index of 10 into a [_; 9] panics
Backspace(bs, row, col, pg) ==
    IF ~bs THEN [panic |-> FALSE, player_grid |-> pg]
    ELSE IF row < N /\ col < N
    THEN [panic |-> FALSE, player_grid |-> [pg EXCEPT ![row][col] = "."]]
    ELSE [panic |-> TRUE, player_grid |-> pg]

\* digit presses of this frame that disagree with the solution at the cell
\* selected when the frame began (history only)
WrongPresses(keys, row, col) ==
    IF row \in Idx /\ col \in Idx /\ starting_grid[row][col] = "."
    THEN Cardinality({ key \in keys : KeyName(key) # solution_grid[row][col] })
    ELSE 0

\* row and column written the wrong way round
SelectSwapped(click, sel) == IF click # None THEN << click[2], click[1] >> ELSE sel

\* only the row is stored
SelectRowOnly(click, sel) == IF click # None THEN << click[1], sel[2] >> ELSE sel

\* `if button_clone.clicked() { self.selected[0] = row; self.selected[1] = col; }`
Select(click, sel) == IF click # None THEN click ELSE sel

\* what the input handling of one game frame leaves in selected,
\* player_grid and strikes, and whether it panics: selected_row and
\* selected_col are read before the grid buttons are drawn, the click is
\* handled while they are drawn, then the digit keys, then Backspace
FrameInput(click, keys, bs) ==
    LET selected_row == selected[1]
        selected_col == selected[2]
        typed == KeyLoop(1, keys, selected_row, selected_col,
                         [player_grid |-> player_grid, strikes |-> strikes])
        erased == Backspace(bs, selected_row, selected_col, typed.player_grid)
    IN  [selected |-> Select(click, selected),
         player_grid |-> erased.player_grid,
         strikes |-> typed.strikes,
         panic |-> erased.panic]

\* the timer is started again on every frame
PlayFrameRestart(click, keys, bs) ==
    /\ ~panicked
    /\ Phase = "Playing"
    /\ LET after == FrameInput(click, keys, bs)
       IN  /\ timer_start' = Some(now)
           /\ screen' = [name |-> "game", text |-> Elapsed]
           /\ selected' = after.selected
           /\ player_grid' = after.player_grid
           /\ strikes' = after.strikes
           /\ panicked' = after.panic
           /\ wrong_entries' = wrong_entries + WrongPresses(keys, selected[1], selected[2])
    /\ UNCHANGED << starting_grid, solution_grid, difficulty, time_elapsed, game_over,
                    now, puzzle, load_status >>

\* the last branch of update: the running game.  `click` is the cell whose
\* button reports clicked() (None if there is none), `keys` the digit keys
\* with key_pressed, `bs` whether Backspace has key_pressed
PlayFrame(click, keys, bs) ==
    /\ ~panicked
    /\ Phase = "Playing"
    /\ LET after == FrameInput(click, keys, bs)
       IN  /\ timer_start' = IF timer_start = None THEN Some(now) ELSE timer_start
           /\ screen' = [name |-> "game", text |-> Elapsed]
           /\ selected' = after.selected
           /\ player_grid' = after.player_grid
           /\ strikes' = after.strikes
           /\ panicked' = after.panic
           /\ wrong_entries' = wrong_entries + WrongPresses(keys, selected[1], selected[2])
    /\ UNCHANGED << starting_grid, solution_grid, difficulty, time_elapsed, game_over,
                    now, puzzle, load_status >>

\* time passing between two frames
Tick ==
    /\ ~panicked
    /\ now < MaxTime
    /\ now' = now + 1
    /\ UNCHANGED << grids, selected, difficulty, strikes, clock, panicked, screen, history >>

(* ---------------------------------------------------------------------- *)
(* Inputs and specification                                                *)
(* ---------------------------------------------------------------------- *)
Clicks == { None } \cup { << i \div N, i % N >> : i \in 0 .. (MaxClick - 1) }

KeySets == { keys \in SUBSET (1 .. MaxKey) : Cardinality(keys) <= MaxKeysPerFrame }

ChooseDifficulty ==
    \E button \in Buttons \cup { "" }, file \in Files :
        \E pick \in 1 .. (IF Len(file.puzzles) = 0 THEN 1 ELSE Len(file.puzzles)) :
            DifficultyFrame(button, file, pick)

\* a cell button can report a click only once the grid is on the screen,
\* that is from the second frame of the running game on; keys need no widget
Play ==
    /\ Phase = "Playing"
    /\ \E click \in (IF screen.name = "game" THEN Clicks ELSE { None }),
          keys \in KeySets, bs \in BOOLEAN : PlayFrame(click, keys, bs)

Next ==
    \/ ChooseDifficulty
    \/ Play
    \/ LoseFrame
    \/ WinFrame

\* frames only: no time passes between them
Spec == Init /\ [][Next]_vars

\* The clock specification: frames with time passing between them.  What the
\* clock does not depend on is narrowed: one difficulty button, a collection
\* that is empty or holds one puzzle, at most one digit key per frame.
ClockFiles == { Parsed(<< >>), Parsed(<< PuzzleB >>) }

ClockKeySets == { keys \in KeySets : Cardinality(keys) <= 1 }

ChooseDifficultyClock ==
    \E button \in { "", "Test" }, file \in ClockFiles : DifficultyFrame(button, file, 1)

PlayClock ==
    /\ Phase = "Playing"
    /\ \E click \in (IF screen.name = "game" THEN Clicks ELSE { None }),
          keys \in ClockKeySets, bs \in BOOLEAN : PlayFrame(click, keys, bs)

NextClock ==
    \/ ChooseDifficultyClock
    \/ PlayClock
    \/ LoseFrame
    \/ WinFrame
    \/ Tick

SpecClock == Init /\ [][NextClock]_vars

TypeOK ==
    /\ strikes \in 0 .. (U8 - 1)
    /\ selected \in ({ << NoSel, NoSel >> } \cup (Idx \X Idx))
    /\ difficulty \in Buttons \cup { "" }
    /\ now \in 0 .. MaxTime


(* ---------------------------------------------------------------------- *)
(* Properties                                                              *)
(* ---------------------------------------------------------------------- *)
NoSelection == << NoSel, NoSel >>

\* cells of the player grid holding a digit that disagrees with the solution
WrongCells == { rc \in Idx \X Idx :
                  /\ player_grid[rc[1]][rc[2]] # "."
                  /\ player_grid[rc[1]][rc[2]] # solution_grid[rc[1]][rc[2]] }

\* a puzzle/solution pair as the puzzle source format prescribes it: 81
\* characters each, the solution all digits, every clue equal to the solution
WellFormed(p) ==
    /\ Len(p.puzzle) = N * N
    /\ Len(p.solution) = N * N
    /\ \A i \in 1 .. (N * N) :
          /\ p.solution[i] \in { KeyName(key) : key \in 1 .. 9 }
          /\ p.puzzle[i] \in { ".", p.solution[i] }

PuzzleLoaded == load_status = "Loaded" /\ WellFormed(puzzle)

\* C1: once a puzzle is loaded, every cell that is a clue in the starting
\* grid holds the same character in the player grid.
C1_ClueCellsNeverEdited ==
    PuzzleLoaded =>
        \A row \in Idx, col \in Idx :
            starting_grid[row][col] # "." => player_grid[row][col] = starting_grid[row][col]

\* C2: a frame of the running game in which only Backspace is pressed while
\* nothing is selected does not panic and leaves the grids, the selection,
\* the strikes and the phase as they were.
C2_ClearWithoutSelectionIsNoOp ==
    [][(selected = NoSelection /\ PlayFrame(None, {}, TRUE)) =>
          /\ ~panicked'
          /\ UNCHANGED << grids, selected, strikes >>
          /\ Phase' = Phase]_vars

\* C3: the strike counter equals the number of digit key presses, applied to
\* a selected non-clue cell, whose digit differed from the solution at that
\* cell, and it never decreases.
C3_StrikesCountWrongEntries ==
    /\ [](strikes = wrong_entries)
    /\ [][strikes' >= strikes]_vars

\* three wrong presses were counted although a single cell is wrong: wrong
\* digits were entered again into an already wrong cell
C3_Witness ==
    /\ PuzzleLoaded
    /\ wrong_entries = 3
    /\ strikes = 3
    /\ Cardinality(WrongCells) = 1

\* C4: the strike counter is always in 0..3.
C4_StrikesAtMostThree == strikes \in 0 .. MaxStrikes

\* C5: no frame of the running game ends with three strikes reached and the
\* player grid equal to the solution grid.
C5_TerminalConditionsExclusive ==
    [][(PuzzleLoaded /\ Phase = "Playing") =>
          ~(strikes' >= MaxStrikes /\ player_grid' = solution_grid')]_vars

\* C6: once a puzzle is loaded, the phase is Won exactly when the player grid
\* equals the solution grid.
C6_WonIffComplete ==
    PuzzleLoaded => ((Phase = "Won") <=> (player_grid = solution_grid))

\* C7: the phase is Lost exactly when the strike counter has reached 3,
\* whatever the player grid holds.
C7_LostIffThreeStrikes == (Phase = "Lost") <=> (strikes >= MaxStrikes)

\* three strikes with a complete grid, shown as the game over screen
C7_Witness ==
    /\ PuzzleLoaded
    /\ strikes >= MaxStrikes
    /\ player_grid = solution_grid
    /\ Phase = "Lost"
    /\ screen.name = "lose"

\* the session has ended: a puzzle was requested and the strikes are used up
\* or the grid is complete
Terminal == difficulty # "" /\ (strikes >= MaxStrikes \/ player_grid = solution_grid)

\* C8: from a Won or Lost state no step changes the player grid, the
\* selection or the strike counter, and the phase stays what it is.
C8_TerminalIsFrozen ==
    [][Terminal =>
          /\ player_grid' = player_grid
          /\ selected' = selected
          /\ strikes' = strikes
          /\ Phase' = Phase]_vars

\* the win screen has been shown for a puzzle the player completed
C8_Witness ==
    /\ PuzzleLoaded
    /\ Phase = "Won"
    /\ screen.name = "win"
    /\ game_over
    /\ selected # NoSelection

\* C9: after a load attempt that found the collection unreadable or empty,
\* the session is still choosing the difficulty and has not aborted.
C9_FailedLoadStaysChoosing ==
    load_status \in { "SourceUnavailable", "EmptyCollection" } =>
        (Phase = "ChoosingDifficulty" /\ ~panicked)

\* C10: after loading a puzzle or solution string whose length is not 81, the
\* three grids are untouched and the session is still choosing the difficulty.
C10_MalformedLoadRejected ==
    (load_status = "Loaded" /\ (Len(puzzle.puzzle) # N * N \/ Len(puzzle.solution) # N * N)) =>
        /\ starting_grid = Fill(".")
        /\ player_grid = Fill(".")
        /\ solution_grid = Fill(".")
        /\ Phase = "ChoosingDifficulty"


\* the 81 positions of a grid read back in row-major order, flat position i
\* (0-based) at row i / 9, column i % 9
ReadBack(grid) == [i \in 1 .. (N * N) |-> grid[(i - 1) \div N][(i - 1) % N]]

\* C11: right after a well-formed puzzle is loaded the starting and player
\* grids are identical, and reading the grids back in row-major order gives
\* the puzzle string (from starting and from player) and the solution string.
C11_LoadRoundTrip ==
    (PuzzleLoaded /\ screen.name = "difficulty") =>
        /\ starting_grid = player_grid
        /\ ReadBack(starting_grid) = puzzle.puzzle
        /\ ReadBack(player_grid) = puzzle.puzzle
        /\ ReadBack(solution_grid) = puzzle.solution

\* a puzzle with two blanks has just been loaded
C11_Witness ==
    /\ PuzzleLoaded
    /\ screen.name = "difficulty"
    /\ puzzle = PuzzleA
    /\ starting_grid[0][1] = "."
    /\ starting_grid[1][0] = "4"


\* C12: once a load has been attempted, no step changes the starting grid or
\* the solution grid, and no second load takes place.
C12_StartingAndSolutionImmutable ==
    [][load_status # "NotAttempted" =>
          UNCHANGED << starting_grid, solution_grid, puzzle, load_status >>]_vars

\* the player has selected a cell and typed into the player grid, and the
\* starting grid still reads back as the loaded puzzle
C12_Witness ==
    /\ PuzzleLoaded
    /\ selected # NoSelection
    /\ strikes >= 1
    /\ player_grid # starting_grid
    /\ ReadBack(starting_grid) = puzzle.puzzle
    /\ ReadBack(solution_grid) = puzzle.solution


\* the selected cell is a cell of the grid and not a clue
OnEditableCell ==
    /\ selected # NoSelection
    /\ starting_grid[selected[1]][selected[2]] = "."

\* the selected cell is a clue
OnClueCell ==
    /\ selected # NoSelection
    /\ starting_grid[selected[1]][selected[2]] # "."

\* C13: a frame of the running game in which one digit key is pressed while
\* a non-clue cell is selected writes that digit into the player grid at the
\* selected cell, right or wrong, changes no other cell, and adds one strike
\* exactly when the digit differs from the solution at that cell.
C13_EnterDigitWritesAndCounts ==
    [][\A key \in 1 .. MaxKey :
          (OnEditableCell /\ PlayFrame(None, { key }, FALSE)) =>
              /\ player_grid' = [player_grid EXCEPT ![selected[1]][selected[2]] = KeyName(key)]
              /\ strikes' = strikes + (IF KeyName(key) # solution_grid[selected[1]][selected[2]]
                                       THEN 1 ELSE 0)]_vars

\* a wrong digit stands in the selected cell and was counted as a strike
C13_Witness ==
    /\ PuzzleLoaded
    /\ screen.name = "game"
    /\ OnEditableCell
    /\ player_grid[selected[1]][selected[2]] \notin { ".", solution_grid[selected[1]][selected[2]] }
    /\ strikes = 1

\* C14: a frame of the running game in which one digit key is pressed while
\* nothing is selected, or while the selected cell is a clue, leaves the
\* player grid, the strikes, the selection and the phase unchanged and does
\* not panic.
C14_EnterDigitRejected ==
    [][\A key \in 1 .. MaxKey :
          ((selected = NoSelection \/ OnClueCell) /\ PlayFrame(None, { key }, FALSE)) =>
              /\ UNCHANGED << player_grid, strikes, selected >>
              /\ Phase' = Phase
              /\ ~panicked']_vars

\* the game is running with a clue cell selected and no strike counted
C14_Witness ==
    /\ PuzzleLoaded
    /\ Phase = "Playing"
    /\ screen.name = "game"
    /\ OnClueCell
    /\ player_grid = starting_grid
    /\ strikes = 0

\* C15: a frame of the running game in which only Backspace is pressed while
\* a cell is selected empties that cell of the player grid if it is not a
\* clue, changes nothing of the player grid if it is a clue, and in both
\* cases leaves the strikes unchanged.
C15_ClearCell ==
    [][(PuzzleLoaded /\ selected # NoSelection /\ PlayFrame(None, {}, TRUE)) =>
          /\ strikes' = strikes
          /\ player_grid' = IF OnEditableCell
                            THEN [player_grid EXCEPT ![selected[1]][selected[2]] = "."]
                            ELSE player_grid]_vars


\* C16: a frame of the running game in which only a cell is clicked sets the
\* selection to that cell and leaves the three grids, the strikes, the clock
\* fields and the phase unchanged; clicking the cell that is already
\* selected changes none of the session's fields.
C16_SelectOnlySetsSelection ==
    [][\A click \in Clicks \ { None } :
          (Phase = "Playing" /\ PlayFrame(click, {}, FALSE)) =>
              /\ selected' = click
              /\ UNCHANGED << grids, strikes, clock, difficulty, panicked >>
              /\ Phase' = Phase
              /\ (selected = click =>
                    UNCHANGED << grids, selected, difficulty, strikes, clock, panicked, history >>)]_vars

\* a cell off the diagonal has been selected and nothing else has happened
C16_Witness ==
    /\ PuzzleLoaded
    /\ Phase = "Playing"
    /\ selected = << 0, 1 >>
    /\ player_grid = starting_grid
    /\ strikes = 0
    /\ timer_start # None


\* the edges of the session state machine
PhaseEdges == { << "ChoosingDifficulty", "Playing" >>, << "Playing", "Won" >>,
                << "Playing", "Lost" >> }

\* C17: every step that does not end in a panic either keeps the phase or
\* follows one of the edges ChoosingDifficulty -> Playing, Playing -> Won,
\* Playing -> Lost.
C17_PhaseEdgesOnly ==
    [][~panicked' => (Phase' = Phase \/ << Phase, Phase' >> \in PhaseEdges)]_vars


\* C18: once the strikes are used up and the game over screen has been
\* shown, the phase is Lost and the clock fields record the end of the game
\* (game_over is set).
C18_LostFreezesClock ==
    (strikes >= MaxStrikes /\ screen.name = "lose") => (Phase = "Lost" /\ game_over)

\* C19: the seconds shown never go down from one game frame to the next nor
\* from the last game frame to the win screen; the completion time is
\* recorded on the first frame of the win screen only, and from then on the
\* recorded and the displayed completion time stay the same.
C19_ElapsedMonotoneThenFrozen ==
    [][/\ (screen.name = "game" /\ screen'.name \in { "game", "win" }) =>
              screen'.text >= screen.text
       /\ (~game_over /\ game_over') =>
              /\ screen'.name = "win"
              /\ timer_start # None => time_elapsed' = now - timer_start[1]
       /\ game_over => (game_over' /\ time_elapsed' = time_elapsed)
       /\ screen.name = "win" => screen' = screen
       /\ screen'.name = "win" => (game_over' /\ screen'.text = time_elapsed')]_vars

\* the win screen still shows the one second recorded on completion although
\* two seconds have passed since the clock was started
C19_Witness ==
    /\ PuzzleLoaded
    /\ screen = [name |-> "win", text |-> 1]
    /\ game_over
    /\ timer_start = Some(0)
    /\ now = 2

Abs(x) == IF x < 0 THEN 0 - x ELSE x

\* C20: the score shown on the game over screen is the integer nearest to
\* 100 * correct cells / 81, it lies in 0..100, and it is the same on every
\* later frame.
C20_LostScore ==
    /\ [](screen.name = "lose" =>
            /\ screen.text \in 0 .. 100
            /\ 2 * Abs(81 * screen.text - 100 * CorrectCells) <= 81)
    /\ [][screen.name = "lose" => screen' = screen]_vars

\* 80 of the 81 cells are correct and the game over screen shows 99
C20_Witness ==
    /\ PuzzleLoaded
    /\ CorrectCells = 80
    /\ screen = [name |-> "lose", text |-> 99]


\* C21: the selection is either the sentinel (10, 10) or a cell of the grid,
\* so whenever a selection check passes (both components below 10, or both
\* different from 10) the indices are in 0..8; it is the sentinel while the
\* difficulty is chosen and on entry to the running game; once a cell is
\* selected the selection never becomes the sentinel again.
C21_SelectionInvariant ==
    /\ [](/\ selected \in ({ NoSelection } \cup (Idx \X Idx))
          /\ (selected[1] < 10 /\ selected[2] < 10) => selected \in Idx \X Idx
          /\ (selected[1] # NoSel /\ selected[2] # NoSel) => selected \in Idx \X Idx
          /\ Phase = "ChoosingDifficulty" => selected = NoSelection)
    /\ [][/\ (Phase = "ChoosingDifficulty" /\ Phase' # "ChoosingDifficulty") =>
                 selected' = NoSelection
          /\ selected # NoSelection => selected' # NoSelection]_vars

\* a cell was selected, then another one
C21_Witness ==
    /\ PuzzleLoaded
    /\ Phase = "Playing"
    /\ selected = << 0, 1 >>
    /\ player_grid[0][0] # starting_grid[0][0]


\* the highest of a non-empty set of keys
MaxOf(keys) == CHOOSE key \in keys : \A other \in keys : other <= key

\* what the cell selected at the frame start holds after a frame with the
\* digit keys `keys` and Backspace `bs`: empty if Backspace was pressed,
\* otherwise the highest pressed digit if the cell accepts digits, otherwise
\* what it held
CellAfter(keys, bs) ==
    IF bs THEN "."
    ELSE IF OnEditableCell /\ keys # {} THEN KeyName(MaxOf(keys))
    ELSE player_grid[selected[1]][selected[2]]

\* C22: in a frame of the running game with a cell selected at its start,
\* the pressed digit keys and Backspace act on that cell and on no other,
\* even if another cell is clicked in the same frame (the click only sets
\* the selection for the next frame); the cell ends with the highest
\* pressed digit, or empty if Backspace was pressed, and every pressed digit
\* that differs from the solution has added one strike, Backspace or not.
C22_FrameEventOrder ==
    /\ []((Phase = "Playing" /\ ~panicked /\ selected # NoSelection) =>
            \A click \in Clicks, keys \in KeySets, bs \in BOOLEAN :
                LET after == FrameInput(click, keys, bs)
                IN  /\ after.player_grid = [player_grid EXCEPT
                              ![selected[1]][selected[2]] = CellAfter(keys, bs)]
                    /\ after.strikes = strikes +
                          (IF OnEditableCell
                           THEN Cardinality({ key \in keys :
                                    KeyName(key) # solution_grid[selected[1]][selected[2]] })
                           ELSE 0)
                    /\ click # None => after.selected = click)
    /\ [][(Phase = "Playing" /\ selected # NoSelection) =>
             player_grid' = [player_grid EXCEPT ![selected[1]][selected[2]] =
                                player_grid'[selected[1]][selected[2]]]]_vars

\* two wrong digits were pressed on cell (0,1), which shows the higher one,
\* and the selection has moved to the still empty cell (0,0)
C22_Witness ==
    /\ PuzzleLoaded
    /\ puzzle = PuzzleA
    /\ selected = << 0, 0 >>
    /\ player_grid[0][0] = "."
    /\ player_grid[0][1] = "3"
    /\ strikes = 2
    /\ screen.name = "game"


\* C23: the clock is not started while the difficulty is chosen; it is
\* started by the first frame of the running game, which shows zero seconds,
\* and every game frame shown has it started; the start instant never
\* changes afterwards; a session that ends without a game frame never
\* starts the clock and reports zero seconds.
C23_ClockStart ==
    /\ [](/\ Phase = "ChoosingDifficulty" => timer_start = None
          /\ screen.name = "game" => timer_start # None
          /\ (timer_start = None /\ screen.name = "win") =>
                 (screen.text = 0 /\ time_elapsed = 0))
    /\ [][/\ timer_start # None => timer_start' = timer_start
          /\ (timer_start = None /\ timer_start' # None) =>
                 /\ Phase = "Playing"
                 /\ screen.name # "game"
                 /\ timer_start' = Some(now)
                 /\ screen' = [name |-> "game", text |-> 0]
          /\ (timer_start = None /\ screen'.name = "game") => timer_start' # None]_vars

\* the clock was started one second after the program began and a later
\* game frame shows one second elapsed
C23_Witness ==
    /\ PuzzleLoaded
    /\ timer_start = Some(1)
    /\ now = 2
    /\ screen = [name |-> "game", text |-> 1]

====
